---- MODULE Spec2Model ----
(***************************************************************************)
(* Model of rscache: the bounded in-memory store (src/database.rs), the    *)
(* command dispatcher and the RESP-like parser (src/resp.rs).              *)
(*                                                                         *)
(* A Rust String is modelled as a sequence of one-character strings, so    *)
(* that lengths, prefixes and per-character conversions are computed.      *)
(***************************************************************************)
EXTENDS Integers, Sequences, FiniteSets, TLC

(***************************************************************************)
(* Bounds of the model.                                                    *)
(***************************************************************************)
\* calls are explored while the size counter is at most SizeBound
SizeBound == 3
\* largest number of arguments that follow the command name in a dispatch
MaxArgs == 3

(***************************************************************************)
(* Strings of the program.                                                 *)
(***************************************************************************)
REPLY_OK == <<"+", "O", "K">>
REPLY_WRONG_ARGS == <<"-", "E", "R", "R", " ", "w", "r", "o", "n", "g", " ", "n", "u", "m", "b", "e", "r", " ", "o", "f", " ", "a", "r", "g", "u", "m", "e", "n", "t", "s", " ", "f", "o", "r", " ", "'", "s", "e", "t", "'", " ", "c", "o", "m", "m", "a", "n", "d">>
REPLY_ERROR == <<"-", "E", "R", "R", " ", "a", "n", " ", "e", "r", "r", "o", "r", " ", "o", "c", "c", "u", "r", "r", "e", "d">>
REPLY_UNKNOWN == <<"-", "E", "R", "R", " ", "u", "n", "k", "n", "o", "w", "n", " ", "c", "o", "m", "m", "a", "n", "d">>
CMD_SET == <<"s", "e", "t">>

\* the letters char::to_lowercase changes, and what it changes them to
UpperLetters == <<"A", "B", "C", "D", "E", "F", "G", "H", "I", "J", "K", "L", "M", "N", "O", "P", "Q", "R", "S", "T", "U", "V", "W", "X", "Y", "Z">>
LowerLetters == <<"a", "b", "c", "d", "e", "f", "g", "h", "i", "j", "k", "l", "m", "n", "o", "p", "q", "r", "s", "t", "u", "v", "w", "x", "y", "z">>

char_to_lowercase(c) ==
    IF \E i \in 1..Len(UpperLetters) : UpperLetters[i] = c
    THEN LowerLetters[CHOOSE i \in 1..Len(UpperLetters) : UpperLetters[i] = c]
    ELSE c

to_lowercase(s) == [i \in 1..Len(s) |-> char_to_lowercase(s[i])]

(***************************************************************************)
(* Values.  The payload of every variant is written as a sequence of       *)
(* strings: the characters of a String, one literal for the others.        *)
(***************************************************************************)
ValueString(s) == [tag |-> "String", v |-> s]
ValueInteger == [tag |-> "Integer", v |-> <<"25">>]
ValueFloat == [tag |-> "Float", v |-> <<"3.14">>]
ValueBoolean == [tag |-> "Boolean", v |-> <<"true">>]

None == [some |-> FALSE, v |-> ValueString(<<>>)]
Some(x) == [some |-> TRUE, v |-> x]

(***************************************************************************)
(* MemoryDatabase                                                          *)
(***************************************************************************)
DEFAULT_MAX_SIZE == 1024 * 1024

\* HashMap::new
EmptyItems == [k \in {} |-> ValueString(<<>>)]

new == [items |-> EmptyItems, size |-> 0, max_size |-> DEFAULT_MAX_SIZE]

calculate_value_size(key, value) ==
    LET value_size == CASE value.tag = "Integer" -> 4
                        [] value.tag = "String" -> Len(value.v)
                        [] value.tag = "Float" -> 8
                        [] value.tag = "Boolean" -> 1
    IN value_size + Len(key)

\* insert that drops every other entry
insert_evicting(items, key, value) == [k \in {key} |-> value]

\* HashMap::insert: the key now maps to value, whether or not it was present
insert(items, key, value) ==
    [k \in (DOMAIN items) \cup {key} |-> IF k = key THEN value ELSE items[k]]

\* HashMap::remove
delete(items, key) == [k \in (DOMAIN items) \ {key} |-> items[k]]

\* set that subtracts the size of the entry it overwrites
set_size_accurate(db, key, value) ==
    LET item_size == calculate_value_size(key, value)
        old_size == IF key \in DOMAIN db.items
                    THEN calculate_value_size(key, db.items[key]) ELSE 0 IN
    IF db.size + item_size > db.max_size
    THEN [db |-> db, ret |-> "MaxSizeExceeded"]
    ELSE [db |-> [db EXCEPT !.items = insert(db.items, key, value),
                            !.size = (db.size - old_size) + item_size],
          ret |-> "Ok"]

\* set without the capacity check
set_unchecked(db, key, value) ==
    LET item_size == calculate_value_size(key, value) IN
    [db |-> [db EXCEPT !.items = insert(db.items, key, value),
                       !.size = db.size + item_size],
     ret |-> "Ok"]

\* set with the insert done before the capacity check
set_insert_before_check(db, key, value) ==
    LET item_size == calculate_value_size(key, value) IN
    IF db.size + item_size > db.max_size
    THEN [db |-> [db EXCEPT !.items = insert(db.items, key, value)], ret |-> "MaxSizeExceeded"]
    ELSE [db |-> [db EXCEPT !.items = insert(db.items, key, value),
                            !.size = db.size + item_size],
          ret |-> "Ok"]

\* set with the capacity check written >= instead of >
set_rejects_exact_fit(db, key, value) ==
    LET item_size == calculate_value_size(key, value) IN
    IF db.size + item_size >= db.max_size
    THEN [db |-> db, ret |-> "MaxSizeExceeded"]
    ELSE [db |-> [db EXCEPT !.items = insert(db.items, key, value),
                            !.size = db.size + item_size],
          ret |-> "Ok"]

set(db, key, value) ==
    LET item_size == calculate_value_size(key, value) IN
    IF db.size + item_size > db.max_size
    THEN [db |-> db, ret |-> "MaxSizeExceeded"]
    ELSE [db |-> [db EXCEPT !.items = insert(db.items, key, value),
                            !.size = db.size + item_size],
          ret |-> "Ok"]

get(db, key) ==
    IF key \in DOMAIN db.items THEN Some(db.items[key]) ELSE None

\* remove that leaves the size counter as it is
remove_keeps_size(db, key) ==
    IF key \notin DOMAIN db.items
    THEN [db |-> db, ret |-> "KeyDoesNotExist"]
    ELSE [db |-> [db EXCEPT !.items = delete(db.items, key)], ret |-> "Ok"]

\* remove without the contains_key check
remove_unchecked(db, key) ==
    LET item_size == IF key \in DOMAIN db.items
                     THEN calculate_value_size(key, db.items[key])
                     ELSE Len(key) IN
    [db |-> [db EXCEPT !.items = delete(db.items, key),
                       !.size = db.size - item_size],
     ret |-> "Ok"]

remove(db, key) ==
    IF key \notin DOMAIN db.items
    THEN [db |-> db, ret |-> "KeyDoesNotExist"]
    ELSE LET item_size == calculate_value_size(key, db.items[key]) IN
         [db |-> [db EXCEPT !.items = delete(db.items, key),
                            !.size = db.size - item_size],
          ret |-> "Ok"]

\* db.size()
size(db) == db.size

\* the sum, over the entries held, of key length + payload size
RECURSIVE SumOver(_, _)
SumOver(items, keys) ==
    IF keys = {} THEN 0
    ELSE LET k == CHOOSE x \in keys : TRUE
         IN calculate_value_size(k, items[k]) + SumOver(items, keys \ {k})

AccountedSize(db) == SumOver(db.items, DOMAIN db.items)

(***************************************************************************)
(* Dispatcher.  A panic (index out of bounds) is the outcome "panic": no   *)
(* reply string is returned.                                               *)
(***************************************************************************)
\* the SET handler with the arity check written < 1: args[1] is then out of bounds
SetCommandHandler_handle_arity1(db, args) ==
    IF Len(args) < 1
    THEN [db |-> db, panic |-> FALSE, handler |-> "set", reply |-> REPLY_WRONG_ARGS]
    ELSE IF Len(args) < 2
    THEN [db |-> db, panic |-> TRUE, handler |-> "set", reply |-> <<>>]
    ELSE LET r == set(db, args[1], ValueString(args[2])) IN
         [db |-> r.db, panic |-> FALSE, handler |-> "set",
          reply |-> IF r.ret = "Ok" THEN REPLY_OK ELSE REPLY_ERROR]

SetCommandHandler_handle(db, args) ==
    IF Len(args) < 3
    THEN [db |-> db, panic |-> FALSE, handler |-> "set", reply |-> REPLY_WRONG_ARGS]
    ELSE LET r == set(db, args[1], ValueString(args[2])) IN
         [db |-> r.db, panic |-> FALSE, handler |-> "set",
          reply |-> IF r.ret = "Ok" THEN REPLY_OK ELSE REPLY_ERROR]

\* dispatch that compares the command name without to_lowercase
dispatch_case_sensitive(db, args) ==
    IF Len(args) = 0
    THEN [db |-> db, panic |-> TRUE, handler |-> "none", reply |-> <<>>]
    ELSE LET command == args[1] IN
         IF command = CMD_SET
         THEN SetCommandHandler_handle(db, SubSeq(args, 2, Len(args)))
         ELSE [db |-> db, panic |-> FALSE, handler |-> "none", reply |-> REPLY_UNKNOWN]

dispatch(db, args) ==
    IF Len(args) = 0
    THEN [db |-> db, panic |-> TRUE, handler |-> "none", reply |-> <<>>]
    ELSE LET command == args[1] IN
         IF to_lowercase(command) = CMD_SET
         THEN SetCommandHandler_handle(db, SubSeq(args, 2, Len(args)))
         ELSE [db |-> db, panic |-> FALSE, handler |-> "none", reply |-> REPLY_UNKNOWN]

(***************************************************************************)
(* Tokenizer: a cursor (position, counted from 0) over the characters of   *)
(* the input.                                                              *)
(***************************************************************************)
CR == "\r"
LF == "\n"
QUOTE == "\""
SPACE == " "

NoChar == [some |-> FALSE, c |-> ""]
SomeChar(c) == [some |-> TRUE, c |-> c]

\* Tokenizer::peek
peek(input, position) ==
    IF position < Len(input) THEN SomeChar(input[position + 1]) ELSE NoChar

\* next without the end-of-input check
next_past_end(input, position) == position + 1

\* Tokenizer::next: the position after the call
next(input, position) ==
    IF peek(input, position).some THEN position + 1 ELSE position

\* Parser::skip
RECURSIVE skip(_, _, _)
skip(input, position, n) ==
    IF n <= 0 THEN position ELSE skip(input, next(input, position), n - 1)

(***************************************************************************)
(* str::parse::<i32>: an optional sign, then one or more decimal digits,   *)
(* the value within the range of i32.                                      *)
(***************************************************************************)
I32_MAX == 2147483647
I32_MIN == (0 - 2147483647) - 1

Digits == <<"0", "1", "2", "3", "4", "5", "6", "7", "8", "9">>

IsDigit(c) == \E i \in 1..10 : Digits[i] = c
DigitValue(c) == (CHOOSE i \in 1..10 : Digits[i] = c) - 1

RECURSIVE DecimalValue(_)
DecimalValue(ds) ==
    IF ds = <<>> THEN 0
    ELSE DecimalValue(SubSeq(ds, 1, Len(ds) - 1)) * 10 + DigitValue(ds[Len(ds)])

parse_i32(s) ==
    LET signed == Len(s) >= 1 /\ s[1] \in {"+", "-"}
        ds == IF signed THEN Tail(s) ELSE s
        wellformed == ds # <<>> /\ \A i \in 1..Len(ds) : IsDigit(ds[i])
        v == IF signed /\ s[1] = "-" THEN 0 - DecimalValue(ds) ELSE DecimalValue(ds)
    IN IF wellformed /\ v >= I32_MIN /\ v <= I32_MAX
       THEN [ok |-> TRUE, v |-> v]
       ELSE [ok |-> FALSE, v |-> 0]

(***************************************************************************)
(* Parser::get_next_token.  The result is the token (none at the end of    *)
(* the input) and the position the cursor is left at.                      *)
(***************************************************************************)
RECURSIVE get_next_token_loop(_, _, _, _)
get_next_token_loop(input, s, is_quoted, position) ==
    LET p == peek(input, position) IN
    IF ~p.some THEN [s |-> s, position |-> position]
    ELSE LET c == p.c IN
         IF c = CR /\ Len(s) > 0
         THEN [s |-> s, position |-> position]
         ELSE IF c = CR /\ peek(input, position + 1) = SomeChar(LF)
         THEN [s |-> <<CR, LF>>, position |-> position + 2]
         ELSE IF c = CR
         THEN \* the CR was skipped; it is pushed and the next character consumed
              get_next_token_loop(input, Append(s, c), is_quoted, next(input, position + 1))
         ELSE IF c = SPACE /\ ~is_quoted
         THEN IF Len(s) > 0
              THEN [s |-> s, position |-> position]
              ELSE [s |-> <<SPACE>>, position |-> position + 1]
         ELSE IF c = QUOTE /\ ~is_quoted
         THEN get_next_token_loop(input, s, TRUE, position + 1)
         ELSE IF c = QUOTE /\ is_quoted
         THEN [s |-> s, position |-> position + 1]
         ELSE get_next_token_loop(input, Append(s, c), is_quoted, position + 1)

get_next_token(input, position) ==
    IF ~peek(input, position).some
    THEN [some |-> FALSE, s |-> <<>>, position |-> position]
    ELSE LET r == get_next_token_loop(input, <<>>, FALSE, position)
         IN [some |-> TRUE, s |-> r.s, position |-> r.position]

(***************************************************************************)
(* Parser::parse, one loop iteration at a time.  p is the parser and the   *)
(* locals of parse: input, position, token_count, tokens, and, inside the  *)
(* payload loop of a length-prefixed string, token_size, next_token and    *)
(* cur_token_size.  pc is "loop" (outer loop), "payload" (inner loop),     *)
(* "done" (tokens returned) or "panic".                                    *)
(***************************************************************************)
Parser_new(input) ==
    [input |-> input, position |-> 0, pc |-> "loop", token_count |-> 0,
     tokens |-> <<>>, token_size |-> 0, next_token |-> <<>>, cur_token_size |-> 0]

\* the check after the outer loop
parse_finish(p) ==
    IF p.token_count > 0 /\ Len(p.tokens) # p.token_count
    THEN [p EXCEPT !.pc = "panic"]
    ELSE [p EXCEPT !.pc = "done"]

\* one iteration of the outer loop
parse_loop(p) ==
    LET t == get_next_token(p.input, p.position)
        q == [p EXCEPT !.position = t.position]
    IN IF ~t.some THEN parse_finish(p)
       ELSE IF t.s = <<>> THEN q
       ELSE IF t.s[1] = "*"
       THEN LET n == parse_i32(Tail(t.s)) IN
            IF ~n.ok THEN [q EXCEPT !.pc = "panic"]
            ELSE [q EXCEPT !.token_count = n.v,
                           !.position = skip(p.input, t.position, 2)]
       ELSE IF t.s[1] = "$"
       THEN LET n == parse_i32(Tail(t.s)) IN
            IF ~n.ok THEN [q EXCEPT !.pc = "panic"]
            ELSE [q EXCEPT !.token_size = n.v,
                           !.next_token = <<>>,
                           !.cur_token_size = 0,
                           !.position = skip(p.input, t.position, 2),
                           !.pc = "payload"]
       ELSE IF t.s = <<CR, LF>> \/ t.s = <<SPACE>> THEN q
       ELSE [q EXCEPT !.tokens = Append(p.tokens, t.s)]

\* the payload loop with the length comparison written >= instead of >
parse_payload_stops_early(p) ==
    LET t == get_next_token(p.input, p.position)
        cur == p.cur_token_size + Len(t.s)
    IN IF ~t.some THEN [p EXCEPT !.pc = "panic"]
       ELSE IF cur >= p.token_size
       THEN [p EXCEPT !.position = t.position,
                      !.cur_token_size = cur,
                      !.tokens = Append(p.tokens, p.next_token),
                      !.pc = "loop"]
       ELSE [p EXCEPT !.position = t.position,
                      !.cur_token_size = cur,
                      !.next_token = p.next_token \o t.s]

\* one iteration of the loop that collects the payload of a "$" token
parse_payload(p) ==
    LET t == get_next_token(p.input, p.position)
        cur == p.cur_token_size + Len(t.s)
    IN IF ~t.some THEN [p EXCEPT !.pc = "panic"]
       ELSE IF cur > p.token_size
       THEN [p EXCEPT !.position = t.position,
                      !.cur_token_size = cur,
                      !.tokens = Append(p.tokens, p.next_token),
                      !.pc = "loop"]
       ELSE [p EXCEPT !.position = t.position,
                      !.cur_token_size = cur,
                      !.next_token = p.next_token \o t.s]

(***************************************************************************)
(* State.                                                                  *)
(***************************************************************************)
VARIABLES
    db,         \* the MemoryDatabase: items, size, max_size
    op,         \* the last call: "new", "set", "get", "remove", "dispatch"
    call_key,   \* key argument of the last set, get or remove
    call_value, \* value argument of the last set
    call_args,  \* argument list of the last dispatch
    ret,        \* Result of the last set or remove
    got,        \* Option<&Value> of the last get
    reply,      \* String returned by the last dispatch
    handler,    \* the handler the last dispatch routed to
    panicked,   \* the last call aborted the program
    parser,     \* the Parser and the locals of a running parse()
    source      \* how the input of the parser was written

storeVars == <<db, op, call_key, call_value, call_args, ret, got, reply, handler, panicked>>
parseVars == <<parser, source>>
vars == <<db, op, call_key, call_value, call_args, ret, got, reply, handler, panicked, parser, source>>

(***************************************************************************)
(* Inputs of the calls.                                                    *)
(***************************************************************************)
KEY_K == <<"k">>
KEY_AB == <<"a", "b">>

Keys == {KEY_K, KEY_AB}

Values == {ValueString(<<>>), ValueString(KEY_K), ValueString(KEY_AB),
           ValueInteger, ValueFloat, ValueBoolean}

\* max_size is a field: new() sets the default, test_memory_db_max_size_exceeded sets 1
Capacities == {1, 3, DEFAULT_MAX_SIZE}

\* the letter-case variants of "set"
SetVariants ==
    {<<"s", "e", "t">>, <<"S", "e", "t">>, <<"s", "E", "t">>, <<"s", "e", "T">>,
     <<"S", "E", "t">>, <<"S", "e", "T">>, <<"s", "E", "T">>, <<"S", "E", "T">>}

CommandNames ==
    SetVariants \cup {<<"b", "o", "g", "u", "s">>, <<"s", "e">>, <<"s", "e", "t", "s">>, <<>>}

ArgWords == {KEY_K, KEY_AB}

\* the argument main.rs sends after the value
EXTRA_ARG == <<"P", "X">>

\* the first n of: a key, a value, then extra arguments
ArgTails(n) ==
    {SubSeq(<<k, v>> \o [i \in 1..MaxArgs |-> EXTRA_ARG], 1, n) : k \in ArgWords, v \in ArgWords}

ArgLists ==
    {<<>>} \cup
    UNION {{<<c>> \o t : c \in CommandNames, t \in ArgTails(n)} : n \in 0..MaxArgs}

(***************************************************************************)
(* Calls on the store.                                                     *)
(***************************************************************************)
\* how an input was written: the family it belongs to, the elements written
\* into it and the count its array header declares
Source(kind, payloads, declared) ==
    [kind |-> kind, payloads |-> payloads, declared |-> declared]

RawSource == Source("raw", <<>>, 0)

StoreInit(c) ==
    /\ db = [new EXCEPT !.max_size = c]
    /\ op = "new"
    /\ call_key = <<>>
    /\ call_value = [tag |-> "String", v |-> <<>>]
    /\ call_args = <<>>
    /\ ret = "none"
    /\ got = None
    /\ reply = <<>>
    /\ handler = "none"
    /\ panicked = FALSE

Init ==
    /\ \E c \in Capacities : StoreInit(c)
    /\ parser = Parser_new(<<>>)
    /\ source = RawSource

Running == ~panicked /\ db.size <= SizeBound

NoValue == ValueString(<<>>)

Set(key, value) ==
    /\ Running
    /\ LET r == set(db, key, value) IN
        /\ db' = r.db
        /\ ret' = r.ret
    /\ op' = "set"
    /\ call_key' = key
    /\ call_value' = value
    /\ call_args' = <<>> /\ got' = None /\ reply' = <<>> /\ handler' = "none"
    /\ panicked' = FALSE
    /\ UNCHANGED parseVars

Get(key) ==
    /\ Running
    /\ got' = get(db, key)
    /\ op' = "get"
    /\ call_key' = key
    /\ call_value' = NoValue /\ call_args' = <<>> /\ ret' = "none"
    /\ reply' = <<>> /\ handler' = "none"
    /\ UNCHANGED <<db, panicked>>
    /\ UNCHANGED parseVars

Remove(key) ==
    /\ Running
    /\ LET r == remove(db, key) IN
        /\ db' = r.db
        /\ ret' = r.ret
    /\ op' = "remove"
    /\ call_key' = key
    /\ call_value' = NoValue /\ call_args' = <<>> /\ got' = None
    /\ reply' = <<>> /\ handler' = "none"
    /\ panicked' = FALSE
    /\ UNCHANGED parseVars

Dispatch(args) ==
    /\ Running
    /\ LET r == dispatch(db, args) IN
        /\ db' = r.db
        /\ reply' = r.reply
        /\ handler' = r.handler
        /\ panicked' = r.panic
    /\ op' = "dispatch"
    /\ call_args' = args
    /\ call_key' = <<>> /\ call_value' = NoValue /\ ret' = "none" /\ got' = None
    /\ UNCHANGED parseVars

Next ==
    \/ \E key \in Keys, value \in Values : Set(key, value)
    \/ \E key \in Keys : Get(key)
    \/ \E key \in Keys : Remove(key)
    \/ \E args \in ArgLists : Dispatch(args)

Spec == Init /\ [][Next]_vars

(***************************************************************************)
(* Inputs of the parser.                                                   *)
(***************************************************************************)
\* largest number of elements of an encoded array
MaxElements == 2
\* largest number of units (a letter, a space, a CR LF pair) of a payload
MaxUnits == 2

RECURSIVE format_decimal(_)
format_decimal(n) ==
    IF n < 10 THEN <<Digits[n + 1]>>
    ELSE format_decimal(n \div 10) \o <<Digits[(n % 10) + 1]>>

RECURSIVE Concat(_)
Concat(ss) == IF ss = <<>> THEN <<>> ELSE Head(ss) \o Concat(Tail(ss))

PayloadUnits == {<<"a">>, <<SPACE>>, <<CR, LF>>}

\* a payload of two lines and twelve characters, in the manner of main.rs
LONG_PAYLOAD == <<"a", "b", SPACE, "c", CR, LF, "d", "e", SPACE, "f", "g", "h">>

Payloads ==
    {Concat(us) : us \in UNION {[1..n -> PayloadUnits] : n \in 0..MaxUnits}} \cup {LONG_PAYLOAD}

PayloadLists == UNION {[1..n -> Payloads] : n \in 1..MaxElements}

\* "$len" CRLF payload CRLF
EncodeBulk(payload) ==
    <<"$">> \o format_decimal(Len(payload)) \o <<CR, LF>> \o payload \o <<CR, LF>>

\* "*n" CRLF, then the n elements
EncodeArray(payloads) ==
    <<"*">> \o format_decimal(Len(payloads)) \o <<CR, LF>>
        \o Concat([i \in 1..Len(payloads) |-> EncodeBulk(payloads[i])])

\* the input of main.rs and its third element
MAIN_INPUT == <<"*", "4", "\r", "\n", "$", "3", "\r", "\n", "S", "E", "T", "\r", "\n", "$", "5", "\r", "\n", "m", "y", "k", "e", "y", "\r", "\n", "$", "4", "4", "\r", "\n", "T", "h", "i", "s", " ", "i", "s", " ", "a", " ", "m", "u", "l", "t", "i", "l", "i", "n", "e", "\r", "\n", "s", "t", "r", "i", "n", "g", " ", "s", "t", "o", "r", "e", "d", " ", "i", "n", " ", "R", "e", "d", "i", "s", ".", "\r", "\n", "P", "X", "\r", "\n">>
MAIN_VALUE == <<"T", "h", "i", "s", " ", "i", "s", " ", "a", " ", "m", "u", "l", "t", "i", "l", "i", "n", "e", "\r", "\n", "s", "t", "r", "i", "n", "g", " ", "s", "t", "o", "r", "e", "d", " ", "i", "n", " ", "R", "e", "d", "i", "s", ".">>
MAIN_TOKENS == <<<<"S", "E", "T">>, <<"m", "y", "k", "e", "y">>, MAIN_VALUE, <<"P", "X">>>>

\* the input of test_tokenizer_next
TEST_INPUT == <<"s", "e", "t", " ", "k", "e", "y", " ", "\"", "s", "t", "r", "i", "n", "g", " ", "v", "a", "l", "u", "e", "\"">>

RawInputs ==
    {MAIN_INPUT, TEST_INPUT,
     <<"*", "2", CR, LF, "$", "4", CR, LF, "t", "e", "s", "t", CR, LF>>,
     <<"$", "1", CR, LF, "a">>,
     <<"*", "x", CR, LF>>}

\* longest input written freely over RawAlphabet
MaxRawLen == 4

RawAlphabet == {"a", SPACE, QUOTE, CR, LF, "*", "$", "1"}

\* an array header that declares a count other than the number of elements
\* that follow it; and two headers, of one element each, the second of which
\* declares two
CountedPayloads == {<<"a">>, <<"a", SPACE, "a">>}

CountedCases ==
    {[input |-> <<"*">> \o format_decimal(d) \o <<CR, LF>>
                    \o Concat([i \in 1..Len(ps) |-> EncodeBulk(ps[i])]),
      source |-> Source("counted", ps, d)] :
        <<d, ps>> \in {x \in (0..(MaxElements + 1))
                            \X UNION {[1..n -> CountedPayloads] : n \in 1..MaxElements} :
                        x[1] # Len(x[2])}}
    \cup {[input |-> EncodeArray(<<<<"a">>>>) \o <<"*", "2", CR, LF>> \o EncodeBulk(<<"a">>),
           source |-> Source("counted", <<<<"a">>, <<"a">>>>, 1)]}

\* one length-prefixed string of any characters, and what follows it
BulkAlphabet == {"a", SPACE, QUOTE, CR, LF, "*", "$"}

BulkPayloads == UNION {[1..n -> BulkAlphabet] : n \in 1..MaxUnits}

FOLLOWING_WORD == <<"b">>

BulkCases ==
    {[input |-> <<"$">> \o format_decimal(Len(payload)) \o <<CR, LF>> \o payload \o follow,
      source |-> Source("bulk",
                        IF follow = FOLLOWING_WORD THEN <<payload, FOLLOWING_WORD>> ELSE <<payload>>,
                        0)] :
        payload \in BulkPayloads, follow \in {<<>>, <<CR, LF>>, FOLLOWING_WORD}}

\* bare words and quoted strings separated by spaces
Bare(w) == [text |-> w, token |-> w]
Quoted(contents) == [text |-> <<QUOTE>> \o contents \o <<QUOTE>>, token |-> contents]

QuotedContents ==
    {<<>>, <<"a", SPACE, "b">>, <<"a", CR, LF, "b">>, <<CR, LF>>, <<"*", "1">>, <<"$", "1">>}

InlineItems == {Bare(<<"a">>)} \cup {Quoted(c) : c \in QuotedContents}

RECURSIVE JoinWithSpaces(_)
JoinWithSpaces(items) ==
    IF Len(items) = 0 THEN <<>>
    ELSE IF Len(items) = 1 THEN items[1].text
    ELSE items[1].text \o <<SPACE>> \o JoinWithSpaces(Tail(items))

InlineCases ==
    {[input |-> JoinWithSpaces(items),
      source |-> Source("inline", [i \in 1..Len(items) |-> items[i].token], 0)] :
        items \in UNION {[1..n -> InlineItems] : n \in 1..MaxElements}}

\* a marker whose size is not a non-empty run of decimal digits
BadSizes == {<<>>, <<"x">>, <<"1", "x">>, <<"+">>, <<"-">>, <<"+", "1">>, <<"-", "1">>}

BadSizeCases ==
    {[input |-> <<marker>> \o bad \o <<CR, LF, "a", CR, LF>>,
      source |-> Source("badsize", <<bad>>, 0)] :
        marker \in {"*", "$"}, bad \in BadSizes}

\* an input that ends in the middle of a token
UnclosedQuoteCases ==
    {[input |-> before \o <<QUOTE>> \o contents,
      source |-> Source("truncated", <<contents>>, 0)] :
        before \in {<<>>, <<"a", SPACE>>},
        contents \in {<<>>, <<"a">>, <<"a", SPACE, "b">>}}

ShortBulkCases ==
    {[input |-> header \o <<"$">> \o format_decimal(Len(c.payload)) \o <<CR, LF>>
                    \o SubSeq(c.payload, 1, c.m),
      source |-> Source("truncated", <<c.payload>>, 0)] :
        header \in {<<>>, <<"*", "1", CR, LF>>},
        c \in {x \in [payload : Payloads, m : 0..Len(LONG_PAYLOAD)] : x.m < Len(x.payload)}}

\* the inputs written to try one shape of the grammar
ParseCases ==
    CountedCases \cup BulkCases \cup InlineCases \cup BadSizeCases
    \cup UnclosedQuoteCases \cup ShortBulkCases

(***************************************************************************)
(* A run of parse().                                                       *)
(***************************************************************************)
ParseInit ==
    /\ StoreInit(DEFAULT_MAX_SIZE)
    /\ \/ \E ps \in PayloadLists :
            /\ parser = Parser_new(EncodeArray(ps))
            /\ source = Source("array", ps, Len(ps))
       \/ \E input \in RawInputs :
            /\ parser = Parser_new(input)
            /\ source = RawSource
       \/ \E n \in 0..MaxRawLen : \E input \in [1..n -> RawAlphabet] :
            /\ parser = Parser_new(input)
            /\ source = RawSource
       \/ \E c \in ParseCases :
            /\ parser = Parser_new(c.input)
            /\ source = c.source

ParseLoop ==
    /\ parser.pc = "loop"
    /\ parser' = parse_loop(parser)
    /\ UNCHANGED <<source, storeVars>>

ParsePayload ==
    /\ parser.pc = "payload"
    /\ parser' = parse_payload(parser)
    /\ UNCHANGED <<source, storeVars>>

ParseNext == ParseLoop \/ ParsePayload

ParseSpec == ParseInit /\ [][ParseNext]_vars

(***************************************************************************)
(* Properties of the store.                                                *)
(***************************************************************************)
StartsWith(s, prefix) ==
    Len(s) >= Len(prefix) /\ SubSeq(s, 1, Len(prefix)) = prefix

IsErrReply(s) == StartsWith(s, <<"-", "E", "R", "R", " ">>)
IsOkReply(s) == StartsWith(s, <<"+">>)

\* C1: in every reachable state size() equals the sum, over the entries
\* held, of key length + payload size (overwrites included).
C1_SizeEqualsSumOfEntries == size(db) = AccountedSize(db)

\* C2: a set for which current size + item size exceeds max_size returns
\* MaxSizeExceeded and leaves items and size as they were.
C2_RejectedSetLeavesStoreUnchanged ==
    [][(op' = "set" /\ db.size + calculate_value_size(call_key', call_value') > db.max_size)
        => (ret' = "MaxSizeExceeded" /\ db'.items = db.items /\ size(db') = size(db))]_vars

C2_Witness ==
    /\ op = "set" /\ ret = "MaxSizeExceeded"
    /\ DOMAIN db.items # {}
    /\ call_key \notin DOMAIN db.items

\* C3 as stated: whenever key length + payload size <= capacity, set returns
\* Ok and the following get returns the value, whatever the store holds.
C3_SetWithinCapacitySucceeds ==
    [][(op' = "set" /\ calculate_value_size(call_key', call_value') <= db.max_size)
        => (ret' = "Ok" /\ get(db', call_key') = Some(call_value'))]_vars

\* C3 amended: whenever current size + key length + payload size <= capacity,
\* set returns Ok and the following get returns the value that was set.
C3_SetWithinRemainingCapacitySucceeds ==
    [][(op' = "set" /\ db.size + calculate_value_size(call_key', call_value') <= db.max_size)
        => (ret' = "Ok" /\ get(db', call_key') = Some(call_value'))]_vars

C3_Witness ==
    /\ op = "set" /\ ret = "Ok"
    /\ size(db) = db.max_size
    /\ Cardinality(DOMAIN db.items) = 2
    /\ get(db, call_key) = Some(call_value)

\* C4: remove of a key the store does not hold returns KeyDoesNotExist and
\* leaves size and every entry unchanged.
C4_RemoveAbsentLeavesStoreUnchanged ==
    [][(op' = "remove" /\ call_key' \notin DOMAIN db.items)
        => (ret' = "KeyDoesNotExist" /\ db'.items = db.items /\ size(db') = size(db))]_vars

\* the key is absent after it was set, overwritten and removed: the counter
\* still holds the overwritten entry
C4_Witness ==
    /\ op = "remove" /\ ret = "KeyDoesNotExist"
    /\ DOMAIN db.items = {}
    /\ size(db) > 0

\* C5: dispatch of ["set", k, v] against an empty store with enough
\* capacity returns "+OK" and get(k) then yields String(v).
C5_SetOfKeyAndValueRepliesOk ==
    [][(/\ op' = "dispatch"
        /\ Len(call_args') = 3
        /\ call_args'[1] = CMD_SET
        /\ DOMAIN db.items = {} /\ size(db) = 0
        /\ calculate_value_size(call_args'[2], ValueString(call_args'[3])) <= db.max_size)
        => (reply' = REPLY_OK /\ get(db', call_args'[2]) = Some(ValueString(call_args'[3])))]_vars

IsSetDispatch(a) == Len(a) >= 1 /\ a[1] \in SetVariants

\* C6 as stated: SET with any number of following arguments other than two
\* returns the wrong-number-of-arguments reply and leaves the store unchanged.
C6_SetRequiresExactlyTwoArguments ==
    [][(op' = "dispatch" /\ IsSetDispatch(call_args') /\ Len(call_args') - 1 # 2)
        => (reply' = REPLY_WRONG_ARGS /\ db' = db)]_vars

\* C6 amended: SET with zero or one following argument returns the
\* wrong-number-of-arguments reply and leaves the store unchanged.
C6_SetRejectsFewerThanTwoArguments ==
    [][(op' = "dispatch" /\ IsSetDispatch(call_args') /\ Len(call_args') - 1 < 2)
        => (~panicked' /\ reply' = REPLY_WRONG_ARGS /\ db' = db)]_vars

C6_Witness ==
    /\ op = "dispatch" /\ IsSetDispatch(call_args) /\ Len(call_args) = 2
    /\ reply = REPLY_WRONG_ARGS
    /\ DOMAIN db.items # {}

\* C7: every letter-case variant of "set" as first argument reaches the SET
\* handler; every other first argument yields "-ERR unknown command" and
\* leaves the store unchanged.
C7_CommandNameIsCaseInsensitive ==
    [][(op' = "dispatch" /\ Len(call_args') >= 1)
        => IF call_args'[1] \in SetVariants
           THEN handler' = "set"
           ELSE handler' = "none" /\ reply' = REPLY_UNKNOWN /\ db' = db]_vars

C7_Witness ==
    /\ op = "dispatch" /\ Len(call_args) = 4
    /\ call_args[1] = <<"s", "E", "T">>
    /\ handler = "set" /\ reply = REPLY_OK

\* C8: for every argument list, the empty one included, dispatch returns a
\* reply that starts with "+" or "-ERR " and never panics.
C8_DispatchAlwaysReplies ==
    op = "dispatch" => (~panicked /\ (IsOkReply(reply) \/ IsErrReply(reply)))

WellFormedSet(a) == Len(a) = 3 /\ a[1] \in SetVariants

\* C9: a dispatch that returns an "-ERR" reply leaves entries and size
\* unchanged, and the next dispatch of a well-formed SET (key and value)
\* whose item fits the remaining capacity returns "+OK" and stores the value.
C9_ErrorsAreRecoverable ==
    [][/\ (op' = "dispatch" /\ IsErrReply(reply')) => db' = db
       /\ (/\ op = "dispatch" /\ IsErrReply(reply)
           /\ op' = "dispatch" /\ WellFormedSet(call_args')
           /\ db.size + calculate_value_size(call_args'[2], ValueString(call_args'[3])) <= db.max_size)
           => (reply' = REPLY_OK /\ get(db', call_args'[2]) = Some(ValueString(call_args'[3])))]_vars

(***************************************************************************)
(* Properties of the parser.                                               *)
(***************************************************************************)
\* C16: no set, accepted or rejected, removes or changes the entry of a key
\* other than the one being set, and an entry leaves the store only through
\* a successful remove of its own key.
C16_NoImplicitEviction ==
    [][/\ op' = "set" =>
            \A k \in (DOMAIN db.items) \ {call_key'} :
                k \in DOMAIN db'.items /\ db'.items[k] = db.items[k]
       /\ \A k \in (DOMAIN db.items) \ (DOMAIN db'.items) :
            op' = "remove" /\ call_key' = k /\ ret' = "Ok"]_vars

C16_Witness ==
    /\ op = "set" /\ ret = "MaxSizeExceeded"
    /\ call_key \in DOMAIN db.items
    /\ Cardinality(DOMAIN db.items) = 2

\* C17: set returns Ok exactly when current size + item size <= max_size
\* (an exact fit is admitted), and every successful set, overwrites
\* included, increases size() by exactly the item size.
C17_SetAdmitsUpToCapacityAndAddsItemSize ==
    [][op' = "set" =>
        LET item_size == Len(call_key') +
                (CASE call_value'.tag = "String" -> Len(call_value'.v)
                   [] call_value'.tag = "Integer" -> 4
                   [] call_value'.tag = "Float" -> 8
                   [] call_value'.tag = "Boolean" -> 1) IN
        /\ ret' \in {"Ok", "MaxSizeExceeded"}
        /\ ret' = "Ok" <=> size(db) + item_size <= db.max_size
        /\ ret' = "Ok" => size(db') = size(db) + item_size
        /\ ret' # "Ok" => size(db') = size(db)]_vars

\* an overwrite that brings the counter to exactly max_size
C17_Witness ==
    /\ op = "set" /\ ret = "Ok"
    /\ size(db) = db.max_size
    /\ size(db) > AccountedSize(db)
    /\ DOMAIN db.items = {call_key}

\* C18: remove of a key the store holds returns Ok, makes get return none,
\* leaves every other entry unchanged and decreases size() by key length +
\* payload size of the value held; a remove right after a successful set of
\* the same key takes size() back to its value before the set.
C18_RemoveDeletesEntryAndSubtractsItsSize ==
    [][/\ (op' = "remove" /\ call_key' \in DOMAIN db.items) =>
            /\ ret' = "Ok"
            /\ get(db', call_key') = None
            /\ DOMAIN db'.items = (DOMAIN db.items) \ {call_key'}
            /\ \A k \in DOMAIN db'.items : db'.items[k] = db.items[k]
            /\ size(db') = size(db) - calculate_value_size(call_key', db.items[call_key'])
       /\ (op = "set" /\ ret = "Ok" /\ op' = "remove" /\ call_key' = call_key) =>
            size(db') + calculate_value_size(call_key, call_value) = size(db)]_vars

C18_Witness ==
    /\ op = "remove" /\ ret = "Ok"
    /\ DOMAIN db.items # {}
    /\ call_key \notin DOMAIN db.items
    /\ size(db) = AccountedSize(db)

\* C20: in every reachable state 0 <= sum of the accounted sizes of the
\* entries held <= size() <= max_size.
C20_CounterBetweenAccountedSizeAndCapacity ==
    /\ 0 <= AccountedSize(db)
    /\ AccountedSize(db) <= size(db)
    /\ size(db) <= db.max_size

\* after an overwrite and a failing remove the counter is above what the
\* entries account for
C20_Witness ==
    /\ op = "remove" /\ ret = "KeyDoesNotExist"
    /\ 0 < AccountedSize(db)
    /\ AccountedSize(db) < size(db)
    /\ size(db) < db.max_size

\* C10: an array header "*n" followed by exactly n length-prefixed strings
\* (payloads of letters, spaces and CR LF pairs) parses, without abort, to
\* exactly the n payloads in input order; the input of main.rs parses to
\* its four strings.
C10_ArrayOfBulkStringsDecodes ==
    /\ source.kind = "array" =>
        /\ parser.pc # "panic"
        /\ parser.pc = "done" => parser.tokens = source.payloads
    /\ parser.input = MAIN_INPUT =>
        /\ parser.pc # "panic"
        /\ parser.pc = "done" => parser.tokens = MAIN_TOKENS

C10_Witness ==
    /\ source.kind = "array"
    /\ parser.pc = "done"
    /\ parser.position = Len(parser.input)
    /\ Len(parser.tokens) = 2
    /\ parser.tokens[1] = LONG_PAYLOAD
    /\ parser.tokens[2] = <<CR, LF, "a">>

\* C11: when an array header declares a count other than the number of
\* elements decoded for it, parse aborts and returns no list, whatever the
\* declared count (0 included).
C11_CountMismatchAborts ==
    source.kind = "counted" => parser.pc # "done"

\* C12: "$N" CRLF yields the next N characters verbatim as one element,
\* whatever they are, and consumes nothing beyond them: parse succeeds when
\* the input ends right after the payload, and what follows the payload is
\* decoded as the next token.
C12_BulkStringIsVerbatim ==
    source.kind = "bulk" =>
        /\ parser.pc # "panic"
        /\ parser.pc = "done" => parser.tokens = source.payloads

\* C13: bare words and quoted strings separated by spaces parse to one
\* element each, in input order, a quoted string giving the characters
\* between its quotes verbatim (empty, with CR LF, or starting with * or $).
C13_InlineWordsAndQuotedStrings ==
    source.kind = "inline" =>
        /\ parser.pc # "panic"
        /\ parser.pc = "done" => parser.tokens = source.payloads

\* C14: when the characters between "*" or "$" and the CRLF are not a
\* non-empty run of decimal digits (empty, letters, a leading sign), parse
\* aborts and returns no list.
C14_MalformedSizeAborts ==
    source.kind = "badsize" => parser.pc # "done"

\* C15: when the input ends in the middle of a token (a quoted string
\* without its closing quote, a length-prefixed string shorter than its
\* declared length), parse aborts and returns no list.
C15_TruncatedInputAborts ==
    source.kind = "truncated" => parser.pc # "done"

\* C19: the cursor never moves back and never passes the end of the input,
\* every get_next_token call that returns a token moves it forward by at
\* least one character (in the payload loop too), and every iteration of
\* parse either moves it forward or ends parse: parse terminates.
C19_CursorAdvancesUntilParseEnds ==
    [][LET t == get_next_token(parser.input, parser.position) IN
       /\ parser'.input = parser.input
       /\ parser.position <= parser'.position
       /\ parser'.position <= Len(parser.input)
       /\ t.some <=> parser.position < Len(parser.input)
       /\ t.some => (parser.position < t.position /\ t.position <= parser'.position)
       /\ parser.position < parser'.position \/ parser'.pc \in {"done", "panic"}]_vars

\* inside the payload loop, after a CR that no LF follows
C19_Witness ==
    /\ parser.pc = "payload"
    /\ parser.next_token = <<CR>>
    /\ parser.position = Len(parser.input)

====
